---- MODULE Spec2Model ----
(***************************************************************************)
(* A model of rsvm, a stack-based bytecode virtual machine.  The repository *)
(* holds two revisions of the machine: src/vm.rs (cells are i64, Print     *)
(* peeks) and src/main.rs (cells are usize, Print pops).  The variable rev *)
(* says which revision a behaviour runs; overflow_checks says whether the  *)
(* build traps integer overflow (debug profile) or wraps (release).        *)
(***************************************************************************)
EXTENDS Integers, Sequences, FiniteSets, TLC

\* ------------------------------------------------------------------ bounds

\* Width of a machine integer in the model (the code's integers are 64 bits
\* wide; the model keeps the two's complement arithmetic at this width).
IntBits == 12

\* Longest instruction sequence drawn exhaustively from the alphabet.
MaxInstrs == 2

\* Largest stack_size and the two memory_size values passed to new() besides
\* the sizes main() and the test use.
MaxStackSize == 2
SmallMem == 2
MemSize == 8

\* The model follows the loop of execute() for this many iterations.
MaxSteps == 16

\* ------------------------------------------------------- program constants

\* new(1024, 1024) in main() and in test_virtual_machine.
MainStackSize == 1024
MainMemorySize == 1024

\* ---------------------------------------------------------------- encoding

Tags == {"Halt", "Push", "Pop", "Add", "Sub", "Mul", "Div", "Jump",
         "JumpIfEqual", "JumpIfNotEqual", "JumpIfLessThan",
         "JumpIfGreaterThan", "JumpIfLessThanOrEqual",
         "JumpIfGreaterThanOrEqual", "Call", "Return", "Print", "Store",
         "Load"}

\* enum OpCode: the discriminant of each tag (`OpCode::X as i64`).
OpCodeOf(tag) ==
  CASE tag = "Halt" -> 0
    [] tag = "Push" -> 1
    [] tag = "Pop" -> 2
    [] tag = "Add" -> 3
    [] tag = "Sub" -> 4
    [] tag = "Mul" -> 5
    [] tag = "Div" -> 6
    [] tag = "Jump" -> 7
    [] tag = "JumpIfEqual" -> 8
    [] tag = "JumpIfNotEqual" -> 9
    [] tag = "JumpIfLessThan" -> 10
    [] tag = "JumpIfGreaterThan" -> 11
    [] tag = "JumpIfLessThanOrEqual" -> 12
    [] tag = "JumpIfGreaterThanOrEqual" -> 13
    [] tag = "Call" -> 14
    [] tag = "Return" -> 15
    [] tag = "Print" -> 16
    [] tag = "Store" -> 17
    [] tag = "Load" -> 18

\* A decode that takes every number outside the table for Halt.
FromI64Lenient(value) ==
  CASE value = 1 -> "Push"
    [] value = 2 -> "Pop"
    [] value = 3 -> "Add"
    [] value = 4 -> "Sub"
    [] value = 5 -> "Mul"
    [] value = 6 -> "Div"
    [] value = 7 -> "Jump"
    [] value = 8 -> "JumpIfEqual"
    [] value = 9 -> "JumpIfNotEqual"
    [] value = 10 -> "JumpIfLessThan"
    [] value = 11 -> "JumpIfGreaterThan"
    [] value = 12 -> "JumpIfLessThanOrEqual"
    [] value = 13 -> "JumpIfGreaterThanOrEqual"
    [] value = 14 -> "Call"
    [] value = 15 -> "Return"
    [] value = 16 -> "Print"
    [] value = 17 -> "Store"
    [] value = 18 -> "Load"
    [] OTHER -> "Halt"

\* impl From<i64> for OpCode; "Unknown" stands for the panic! arm.
FromI64(value) ==
  CASE value = 0 -> "Halt"
    [] value = 1 -> "Push"
    [] value = 2 -> "Pop"
    [] value = 3 -> "Add"
    [] value = 4 -> "Sub"
    [] value = 5 -> "Mul"
    [] value = 6 -> "Div"
    [] value = 7 -> "Jump"
    [] value = 8 -> "JumpIfEqual"
    [] value = 9 -> "JumpIfNotEqual"
    [] value = 10 -> "JumpIfLessThan"
    [] value = 11 -> "JumpIfGreaterThan"
    [] value = 12 -> "JumpIfLessThanOrEqual"
    [] value = 13 -> "JumpIfGreaterThanOrEqual"
    [] value = 14 -> "Call"
    [] value = 15 -> "Return"
    [] value = 16 -> "Print"
    [] value = 17 -> "Store"
    [] value = 18 -> "Load"
    [] OTHER -> "Unknown"

\* The arms of `match opcode` in main.rs's execute, which dispatches on the
\* raw number; "Unknown" stands for the `_` arm.
MatchArm(value) ==
  CASE value = 0 -> "Halt"
    [] value = 1 -> "Push"
    [] value = 2 -> "Pop"
    [] value = 3 -> "Add"
    [] value = 4 -> "Sub"
    [] value = 5 -> "Mul"
    [] value = 6 -> "Div"
    [] value = 7 -> "Jump"
    [] value = 8 -> "JumpIfEqual"
    [] value = 9 -> "JumpIfNotEqual"
    [] value = 10 -> "JumpIfLessThan"
    [] value = 11 -> "JumpIfGreaterThan"
    [] value = 12 -> "JumpIfLessThanOrEqual"
    [] value = 13 -> "JumpIfGreaterThanOrEqual"
    [] value = 14 -> "Call"
    [] value = 15 -> "Return"
    [] value = 16 -> "Print"
    [] value = 17 -> "Store"
    [] value = 18 -> "Load"
    [] OTHER -> "Unknown"

\* enum Instruction: the variants that carry an operand.  An instruction is
\* <<tag, operand>> for these and <<tag>> for the others.
WithOperand == {"Push", "Jump", "JumpIfEqual", "JumpIfNotEqual",
                "JumpIfLessThan", "JumpIfGreaterThan",
                "JumpIfLessThanOrEqual", "JumpIfGreaterThanOrEqual",
                "Call", "Store", "Load"}

\* ---------------------------------------------------------------- integers

\* i64 in vm.rs, usize in main.rs, at the model's width.
MinInt(r) == IF r = "vm" THEN -(2 ^ (IntBits - 1)) ELSE 0
MaxInt(r) == IF r = "vm" THEN 2 ^ (IntBits - 1) - 1 ELSE 2 ^ IntBits - 1
Fits(r, x) == MinInt(r) <= x /\ x <= MaxInt(r)

\* Two's complement wrap-around of the exact result x.
Wrap(r, x) == ((x - MinInt(r)) % (2 ^ IntBits)) + MinInt(r)

\* A quotient rounded toward minus infinity.
TruncDivFloor(a, b) == IF b > 0 THEN a \div b ELSE (-a) \div (-b)

\* Rust's `/` on integers: the quotient rounded toward zero.
Abs(x) == IF x < 0 THEN -x ELSE x
TruncDiv(a, b) ==
  IF (a < 0) = (b < 0) THEN Abs(a) \div Abs(b) ELSE -(Abs(a) \div Abs(b))

\* ---------------------------------------------------------------- assembler

\* Lower with the operand of Store and Load left out.
LowerDropsAddress(instruction) ==
  IF instruction[1] \in WithOperand \ {"Store", "Load"}
    THEN <<OpCodeOf(instruction[1]), instruction[2]>>
    ELSE <<OpCodeOf(instruction[1])>>

\* One iteration of the loop of Assembler::assemble: the cells pushed for
\* one instruction.
Lower(instruction) ==
  IF instruction[1] \in WithOperand
    THEN <<OpCodeOf(instruction[1]), instruction[2]>>
    ELSE <<OpCodeOf(instruction[1])>>

\* Assembler::assemble: machine_code after lowering `instrs` onto `code`.
\* An assemble that starts from an empty machine_code on every call.
RECURSIVE AssembleCleared(_, _)
AssembleCleared(code, instrs) ==
  IF instrs = <<>> THEN <<>>
  ELSE Lower(Head(instrs)) \o AssembleCleared(code, Tail(instrs))

RECURSIVE Assemble(_, _)
Assemble(code, instrs) ==
  IF instrs = <<>> THEN code
  ELSE Assemble(code \o Lower(Head(instrs)), Tail(instrs))

\* ------------------------------------------------------------------- inputs

Revisions == {"vm", "main"}

\* Operand values of the instructions drawn exhaustively.
Operands == {2}

\* Every Instruction value over these operands.
Alphabet ==
  {<<t>> : t \in Tags \ WithOperand}
    \cup {<<t, v>> : t \in WithOperand, v \in Operands}

\* The same instructions with operand 0.
ZeroOperand == {<<t, 0>> : t \in WithOperand}

RECURSIVE SeqsUpTo(_, _)
SeqsUpTo(S, n) ==
  IF n = 0 THEN {<<>>}
  ELSE LET shorter == SeqsUpTo(S, n - 1)
       IN  shorter \cup {Append(p, x) : p \in {q \in shorter : Len(q) = n - 1}, x \in S}

\* The instructions of main().
MainProgram ==
  << <<"Push", 6>>, <<"Push", 5>>, <<"Mul">>, <<"Push", 4>>, <<"Add">>,
     <<"Push", 3>>, <<"Sub">>, <<"Push", 1>>, <<"Sub">>, <<"Push", 2>>,
     <<"Div">>, <<"Print">>, <<"Halt">> >>

\* Push a, Push b, <op>, Print, Halt: the shape of the program of
\* test_assembler and test_virtual_machine.
ArithVals(r) ==
  {0, 1, 2, 5, MaxInt(r)} \cup (IF r = "vm" THEN {-3, -1, MinInt(r)} ELSE {})
ArithPrograms(r) ==
  {<< <<"Push", a>>, <<"Push", b>>, <<op>>, <<"Print">>, <<"Halt">> >> :
     a \in ArithVals(r), b \in ArithVals(r), op \in {"Add", "Sub", "Mul", "Div"}}

\* Call 3, Halt, <body>, Return: a subroutine at address 3 whose body is up
\* to two instructions.
BodyAlphabet ==
  {<<"Pop">>, <<"Add">>, <<"Print">>, <<"Push", 2>>, <<"Push", 7>>,
   <<"Store", 7>>, <<"Load", 7>>, <<"Call", 5>>}
CallPrograms ==
  {<< <<"Call", 3>>, <<"Halt">> >> \o body \o << <<"Return">> >> :
     body \in SeqsUpTo(BodyAlphabet, 2)}

\* Push v, Jump 1: control enters the operand cell, so v is fetched as an
\* opcode.
OperandJumps(r) ==
  {<< <<"Push", v>>, <<"Jump", 1>> >> : v \in {3, 19, MaxInt(r), MinInt(r)}}

\* One instruction or two, with 0 among the operands.
ZeroPrograms ==
  {<<i>> : i \in ZeroOperand}
    \cup {<<i, j>> : i \in Alphabet \cup ZeroOperand, j \in ZeroOperand}
    \cup {<<i, j>> : i \in ZeroOperand, j \in Alphabet}

\* Push a, Push b, <conditional jump> 7, Halt: the jump lands on cell 7 when
\* taken and on the Halt at 6 when not.
JumpIfTags == {"JumpIfEqual", "JumpIfNotEqual", "JumpIfLessThan",
               "JumpIfGreaterThan", "JumpIfLessThanOrEqual",
               "JumpIfGreaterThanOrEqual"}
CmpVals(r) == {0, 1, 2} \cup (IF r = "vm" THEN {-1} ELSE {})
JumpPrograms(r) ==
  {<< <<"Push", a>>, <<"Push", b>>, <<t, 7>>, <<"Halt">> >> :
     a \in CmpVals(r), b \in CmpVals(r), t \in JumpIfTags}

\* Addresses outside a memory of MemSize cells.
BadAddresses(r) ==
  {MemSize, MaxInt(r)} \cup (IF r = "vm" THEN {-1, MinInt(r)} ELSE {})

\* Push 1, then a Store, Load, Jump or Call of a bad address; Push of a bad
\* address, then Return.
AddressPrograms(r) ==
  {<< <<"Push", 1>>, <<t, a>> >> :
     t \in {"Store", "Load", "Jump", "Call"}, a \in BadAddresses(r)}
    \cup {<< <<"Push", a>>, <<"Return">> >> : a \in BadAddresses(r)}

\* Push <opcode>, Store m, Jump m with m the last cell of a memory of MemSize
\* cells: an operand-bearing opcode is written to the last cell and fetched.
LastCellPrograms ==
  {<< <<"Push", OpCodeOf(t)>>, <<"Store", MemSize - 1>>,
      <<"Jump", MemSize - 1>> >> : t \in WithOperand}

\* Push 7, Store 4, Pop, Halt: the Store overwrites the Pop at cell 4 with the
\* opcode of Jump, whose operand cell then is the Halt (0).
SelfModifying == << <<"Push", 7>>, <<"Store", 4>>, <<"Pop">>, <<"Halt">> >>

\* Push v, Store a, Load a, alone or after a Push 5.
StoreLoadPrefixes == {<<>>, << <<"Push", 5>> >>}
StoreLoadVals(r) == {2, 7} \cup (IF r = "vm" THEN {-1} ELSE {})
StoreLoadAddrs == {0, 3, 6, 7}
StoreLoad(pre, v, a) ==
  pre \o << <<"Push", v>>, <<"Store", a>>, <<"Load", a>> >>
StoreLoadPrograms(r) ==
  {StoreLoad(pre, v, a) :
     pre \in StoreLoadPrefixes, v \in StoreLoadVals(r), a \in StoreLoadAddrs}

Programs(r) ==
  SeqsUpTo(Alphabet, MaxInstrs) \cup ZeroPrograms \cup {MainProgram}
    \cup ArithPrograms(r) \cup CallPrograms \cup OperandJumps(r)
    \cup JumpPrograms(r) \cup AddressPrograms(r) \cup LastCellPrograms
    \cup {SelfModifying} \cup StoreLoadPrograms(r)

\* The <<stack_size, memory_size>> pairs passed to new(): small sizes for
\* every program, and new(1024, 1024) for the two callers in the repository,
\* main() and test_virtual_machine (which assembles nothing).
Configs(instrs) ==
  ((0 .. MaxStackSize) \X {SmallMem, MemSize})
    \cup (IF instrs \in {MainProgram, <<>>}
            THEN {<<MainStackSize, MainMemorySize>>} ELSE {})

\* -------------------------------------------------------------------- state

VARIABLES
  rev,              \* which revision runs: "vm" (vm.rs) or "main" (main.rs)
  overflow_checks,  \* the build traps integer overflow
  instructions,     \* the Vec<Instruction> handed to assemble
  machine_code,     \* Assembler.machine_code
  pc,               \* where the caller is: "start", "assembled",
                    \* "constructed", "loaded", "running", "halted", "panicked"
  steps,            \* iterations of the loop that did not break (the
                    \* model follows MaxSteps of them)
  ip, stack, memory, \* the fields of VirtualMachine
  output,           \* the values println! wrote, in order
  err,              \* the fatal condition that ended the run, or "none"
  last,             \* the instruction dispatched last: its tag and address
  calls             \* the Call steps so far: address, the stack before the
                    \* Call, and whether the pushed cell was never popped since

vars == <<rev, overflow_checks, instructions, machine_code, pc, steps,
          ip, stack, memory, output, err, last, calls>>

build == <<rev, overflow_checks, instructions>>

Zeros(n) == [i \in 1 .. n |-> 0]

Init ==
  /\ rev \in Revisions
  /\ overflow_checks \in BOOLEAN
  /\ instructions \in Programs(rev)
  /\ machine_code = <<>>
  /\ pc = "start"
  /\ steps = 0
  /\ ip = 0
  /\ stack = <<>>
  /\ memory = <<>>
  /\ output = <<>>
  /\ err = "none"
  /\ last = [op |-> "none", at |-> 0]
  /\ calls = {}

\* Assembler::new() followed by assemble(instructions).
DoAssemble ==
  /\ pc = "start"
  /\ machine_code' = Assemble(machine_code, instructions)
  /\ pc' = "assembled"
  /\ UNCHANGED <<build, steps, ip, stack, memory, output, err, last, calls>>

\* VirtualMachine::new(stack_size, memory_size).
NewVM(ss, ms) == [ip |-> 0, stack |-> Zeros(ss), memory |-> Zeros(ms)]

New ==
  /\ pc = "assembled"
  /\ \E cfg \in Configs(instructions) :
       /\ ip' = NewVM(cfg[1], cfg[2]).ip
       /\ stack' = NewVM(cfg[1], cfg[2]).stack
       /\ memory' = NewVM(cfg[1], cfg[2]).memory
  /\ pc' = "constructed"
  /\ UNCHANGED <<build, machine_code, steps, output, err, last, calls>>

\* A load that zeroes the cells after the program.
CopyIntoZeroTail(mem, program) ==
  [i \in 1 .. Len(mem) |-> IF i <= Len(program) THEN program[i] ELSE 0]

\* The loop of load_program: program copied over the first cells of mem.
CopyInto(mem, program) ==
  [i \in 1 .. Len(mem) |-> IF i <= Len(program) THEN program[i] ELSE mem[i]]

\* The assert! of load_program off by one.
LoadAcceptsOneMore(mem, program) == Len(program) <= Len(mem) + 1

\* The assert! of load_program.
LoadAccepts(mem, program) == Len(program) <= Len(mem)

\* VirtualMachine::load_program(&assembler.machine_code).
LoadProgram ==
  /\ pc = "constructed"
  /\ IF LoadAccepts(memory, machine_code)
       THEN /\ memory' = CopyInto(memory, machine_code)
            /\ pc' = "loaded"
            /\ err' = err
       ELSE /\ memory' = memory
            /\ pc' = "panicked"
            /\ err' = "ProgramTooLarge"
  /\ UNCHANGED <<build, machine_code, steps, ip, stack, output, last, calls>>

\* test_virtual_machine: vm.memory is assigned the image directly.
TestImage(a, b) ==
  <<OpCodeOf("Push"), a, OpCodeOf("Push"), b, OpCodeOf("Add"),
    OpCodeOf("Print"), OpCodeOf("Halt")>>

TestSetMemory ==
  /\ pc = "constructed"
  /\ rev = "vm"
  /\ instructions = <<>>
  /\ Len(stack) = MainStackSize
  /\ \E a \in ArithVals("vm"), b \in ArithVals("vm") : memory' = TestImage(a, b)
  /\ pc' = "loaded"
  /\ UNCHANGED <<build, machine_code, steps, ip, stack, output, err, last, calls>>

\* A call of execute(): the loop is entered.
Execute ==
  /\ pc \in {"loaded", "halted"}
  /\ pc' = "running"
  /\ UNCHANGED <<build, machine_code, steps, ip, stack, memory, output, err,
                 last, calls>>

\* ------------------------------------------------------------ dispatch loop

\* memory[a as usize]: the index is in bounds (a negative a casts to a value
\* beyond any length), and the cell read.
InBounds(mem, a) == 0 <= a /\ a < Len(mem)
Cell(mem, a) == mem[a + 1]

\* `match opcode.into()` in vm.rs, `match opcode` in main.rs.
Dispatch(value) == IF rev = "vm" THEN FromI64(value) ELSE MatchArm(value)

\* The loop fetched the opcode at ip and took the arm of `tag`.
Fetched(tag) ==
  /\ pc = "running"
  /\ steps < MaxSteps
  /\ InBounds(memory, ip)
  /\ Dispatch(Cell(memory, ip)) = tag

\* stack.pop() and stack.last() as Option values.
\* A pop that yields 0 on the empty stack (unwrap_or_default).
PopOptionOrDefault(s) ==
  IF s = <<>> THEN [some |-> TRUE, value |-> 0, rest |-> s]
  ELSE [some |-> TRUE, value |-> s[Len(s)], rest |-> SubSeq(s, 1, Len(s) - 1)]

PopOption(s) ==
  IF s = <<>> THEN [some |-> FALSE, value |-> 0, rest |-> s]
  ELSE [some |-> TRUE, value |-> s[Len(s)], rest |-> SubSeq(s, 1, Len(s) - 1)]
LastOption(s) ==
  IF s = <<>> THEN [some |-> FALSE, value |-> 0, rest |-> s]
  ELSE [some |-> TRUE, value |-> s[Len(s)], rest |-> s]

\* The arm completed: the loop goes on with the new ip, stack, memory and
\* output.  low is the smallest depth the stack had during the arm.
Commit(tag, nip, nstack, nmem, nout, low) ==
  /\ pc' = "running"
  /\ ip' = nip
  /\ stack' = nstack
  /\ memory' = nmem
  /\ output' = nout
  /\ last' = [op |-> tag, at |-> ip]
  /\ calls' =
       {[c EXCEPT !.intact = c.intact /\ low >= Len(c.before) + 1] : c \in calls}
         \cup (IF tag = "Call"
                 THEN {[p |-> ip, before |-> stack, intact |-> TRUE]}
                 ELSE {})
  /\ steps' = steps + 1
  /\ UNCHANGED <<build, machine_code, err>>

\* The arm panicked with `kind`, the stack being nstack at that point.
Abort(tag, kind, nstack) ==
  /\ pc' = "panicked"
  /\ err' = kind
  /\ stack' = nstack
  /\ last' = [op |-> tag, at |-> ip]
  /\ steps' = steps + 1
  /\ UNCHANGED <<build, machine_code, ip, memory, output, calls>>

\* An ip past the memory taken as the end of the program.
FetchFaultHalts ==
  /\ pc = "running"
  /\ steps < MaxSteps
  /\ ~InBounds(memory, ip)
  /\ pc' = "halted"
  /\ last' = [op |-> "Fetch", at |-> ip]
  /\ UNCHANGED <<build, machine_code, steps, ip, stack, memory, output, err,
                 calls>>

\* let opcode = self.memory[self.ip as usize] with ip out of bounds.
StepFetchFault ==
  /\ pc = "running"
  /\ steps < MaxSteps
  /\ ~InBounds(memory, ip)
  /\ Abort("Fetch", "AddressOutOfRange", stack)

\* The panic! arm of From<i64> (vm.rs), the `_` arm (main.rs).
StepUnknown ==
  /\ Fetched("Unknown")
  /\ Abort("Unknown", "InvalidOpcode", stack)

\* Halt advancing ip past its own cell before it breaks.
HaltAdvances ==
  /\ Fetched("Halt")
  /\ pc' = "halted"
  /\ ip' = ip + 1
  /\ last' = [op |-> "Halt", at |-> ip]
  /\ UNCHANGED <<build, machine_code, steps, stack, memory, output, err, calls>>

StepHalt ==
  /\ Fetched("Halt")
  /\ pc' = "halted"
  /\ last' = [op |-> "Halt", at |-> ip]
  /\ UNCHANGED <<build, machine_code, steps, ip, stack, memory, output, err,
                 calls>>

StepPush ==
  /\ Fetched("Push")
  /\ IF ~InBounds(memory, ip + 1)
       THEN Abort("Push", "AddressOutOfRange", stack)
       ELSE Commit("Push", ip + 2, Append(stack, Cell(memory, ip + 1)), memory,
                   output, Len(stack))

\* self.stack.pop(); the Option is dropped.
PopDiscard(s) == PopOption(s).rest

StepPop ==
  /\ Fetched("Pop")
  /\ Commit("Pop", ip + 1, PopDiscard(stack), memory, output,
            Len(PopDiscard(stack)))

\* Add and Sub with the operands the other way round or the wrong operator.
AddAsSub(op1, op2) == op2 - op1
SubSwapped(op1, op2) == op1 - op2

\* The result expressions of Add, Sub and Mul.
AddResult(op1, op2) == op1 + op2
SubResult(op1, op2) == op2 - op1
MulResult(op1, op2) == op1 * op2

\* Div that yields 0 for a zero divisor instead of panicking.
DivOutcomeZeroQuotient(op1, op2) ==
  IF op1 = 0 THEN [ok |-> TRUE, kind |-> "none", value |-> 0]
  ELSE IF op1 = -1 /\ op2 = MinInt(rev) /\ rev = "vm"
    THEN [ok |-> FALSE, kind |-> "ArithmeticOverflow", value |-> 0]
  ELSE [ok |-> TRUE, kind |-> "none", value |-> TruncDiv(op2, op1)]

\* op2 / op1: the panic of a zero divisor and of MIN / -1 (in every build),
\* or the quotient.
DivOutcome(op1, op2) ==
  IF op1 = 0 THEN [ok |-> FALSE, kind |-> "DivisionByZero", value |-> 0]
  ELSE IF op1 = -1 /\ op2 = MinInt(rev) /\ rev = "vm"
    THEN [ok |-> FALSE, kind |-> "ArithmeticOverflow", value |-> 0]
  ELSE [ok |-> TRUE, kind |-> "none", value |-> TruncDiv(op2, op1)]

\* An arm that pops op1, pops op2 and pushes `exact`, the exact result.
Binary(tag, first, second, exact) ==
  IF ~first.some THEN Abort(tag, "StackUnderflow", first.rest)
  ELSE IF ~second.some THEN Abort(tag, "StackUnderflow", second.rest)
  ELSE IF Fits(rev, exact)
    THEN Commit(tag, ip + 1, Append(second.rest, exact), memory, output,
                Len(second.rest))
  ELSE IF overflow_checks THEN Abort(tag, "ArithmeticOverflow", second.rest)
  ELSE Commit(tag, ip + 1, Append(second.rest, Wrap(rev, exact)), memory,
              output, Len(second.rest))

StepAdd ==
  /\ Fetched("Add")
  /\ LET first == PopOption(stack)
         second == PopOption(first.rest)
     IN  Binary("Add", first, second, AddResult(first.value, second.value))

StepSub ==
  /\ Fetched("Sub")
  /\ LET first == PopOption(stack)
         second == PopOption(first.rest)
     IN  Binary("Sub", first, second, SubResult(first.value, second.value))

StepMul ==
  /\ Fetched("Mul")
  /\ LET first == PopOption(stack)
         second == PopOption(first.rest)
     IN  Binary("Mul", first, second, MulResult(first.value, second.value))

StepDiv ==
  /\ Fetched("Div")
  /\ LET first == PopOption(stack)
         second == PopOption(first.rest)
         q == DivOutcome(first.value, second.value)
     IN  IF ~first.some THEN Abort("Div", "StackUnderflow", first.rest)
         ELSE IF ~second.some THEN Abort("Div", "StackUnderflow", second.rest)
         ELSE IF ~q.ok THEN Abort("Div", q.kind, second.rest)
         ELSE Commit("Div", ip + 1, Append(second.rest, q.value), memory,
                     output, Len(second.rest))

\* Jump advancing past its operand instead of going to it.
JumpFallsThrough ==
  /\ Fetched("Jump")
  /\ IF ~InBounds(memory, ip + 1)
       THEN Abort("Jump", "AddressOutOfRange", stack)
       ELSE Commit("Jump", ip + 2, stack, memory, output, Len(stack))

StepJump ==
  /\ Fetched("Jump")
  /\ IF ~InBounds(memory, ip + 1)
       THEN Abort("Jump", "AddressOutOfRange", stack)
       ELSE Commit("Jump", Cell(memory, ip + 1), stack, memory, output,
                   Len(stack))

\* The conditions with the operands the other way round.
TakenSwapped(tag, op1, op2) ==
  CASE tag = "JumpIfEqual" -> op2 = op1
    [] tag = "JumpIfNotEqual" -> op2 # op1
    [] tag = "JumpIfLessThan" -> op2 < op1
    [] tag = "JumpIfGreaterThan" -> op2 > op1
    [] tag = "JumpIfLessThanOrEqual" -> op2 <= op1
    [] tag = "JumpIfGreaterThanOrEqual" -> op2 >= op1

\* The condition of the `if` of each conditional jump.
Taken(tag, op1, op2) ==
  CASE tag = "JumpIfEqual" -> op1 = op2
    [] tag = "JumpIfNotEqual" -> op1 # op2
    [] tag = "JumpIfLessThan" -> op1 < op2
    [] tag = "JumpIfGreaterThan" -> op1 > op2
    [] tag = "JumpIfLessThanOrEqual" -> op1 <= op2
    [] tag = "JumpIfGreaterThanOrEqual" -> op1 >= op2

\* The arm of a conditional jump: pop op1, pop op2, read the address, branch.
JumpIf(tag) ==
  /\ Fetched(tag)
  /\ LET first == PopOption(stack)
         second == PopOption(first.rest)
     IN  IF ~first.some THEN Abort(tag, "StackUnderflow", first.rest)
         ELSE IF ~second.some THEN Abort(tag, "StackUnderflow", second.rest)
         ELSE IF ~InBounds(memory, ip + 1)
           THEN Abort(tag, "AddressOutOfRange", second.rest)
         ELSE Commit(tag,
                     IF Taken(tag, first.value, second.value)
                       THEN Cell(memory, ip + 1) ELSE ip + 2,
                     second.rest, memory, output, Len(second.rest))

StepJumpIfEqual == JumpIf("JumpIfEqual")
StepJumpIfNotEqual == JumpIf("JumpIfNotEqual")
StepJumpIfLessThan == JumpIf("JumpIfLessThan")
StepJumpIfGreaterThan == JumpIf("JumpIfGreaterThan")
StepJumpIfLessThanOrEqual == JumpIf("JumpIfLessThanOrEqual")
StepJumpIfGreaterThanOrEqual == JumpIf("JumpIfGreaterThanOrEqual")

\* Call pushing the address of its own operand cell.
ReturnAddressOperand(at) == at + 1

\* The value Call pushes.
ReturnAddress(at) == at + 2

StepCall ==
  /\ Fetched("Call")
  /\ IF ~InBounds(memory, ip + 1)
       THEN Abort("Call", "AddressOutOfRange", stack)
       ELSE Commit("Call", Cell(memory, ip + 1),
                   Append(stack, ReturnAddress(ip)), memory, output, Len(stack))

\* Return taking address 0 when the stack is empty (unwrap_or_default).
ReturnTargetOrZero(s) ==
  IF s = <<>> THEN [some |-> TRUE, value |-> 0, rest |-> s] ELSE PopOption(s)

\* let address = self.stack.pop().unwrap(), before the unwrap.
ReturnTarget(s) == PopOption(s)

StepReturn ==
  /\ Fetched("Return")
  /\ LET address == ReturnTarget(stack)
     IN  IF ~address.some THEN Abort("Return", "StackUnderflow", address.rest)
         ELSE Commit("Return", address.value, address.rest, memory, output,
                     Len(address.rest))

\* The stack access of Print: stack.last() in vm.rs, stack.pop() in main.rs.
PrintOperand(s) == IF rev = "vm" THEN LastOption(s) ELSE PopOption(s)

StepPrint ==
  /\ Fetched("Print")
  /\ LET value == PrintOperand(stack)
     IN  IF ~value.some THEN Abort("Print", "StackUnderflow", value.rest)
         ELSE Commit("Print", ip + 1, value.rest, memory,
                     Append(output, value.value), Len(value.rest))

\* Store writing one cell too low (a 1-based index).
StoreWriteBelow(mem, address, value) ==
  IF address = 0 THEN mem ELSE [mem EXCEPT ![address] = value]

\* self.memory[address as usize] = value.
StoreWrite(mem, address, value) == [mem EXCEPT ![address + 1] = value]

StepStore ==
  /\ Fetched("Store")
  /\ LET value == PopOption(stack)
     IN  IF ~InBounds(memory, ip + 1)
           THEN Abort("Store", "AddressOutOfRange", stack)
         ELSE IF ~value.some THEN Abort("Store", "StackUnderflow", value.rest)
         ELSE IF ~InBounds(memory, Cell(memory, ip + 1))
           THEN Abort("Store", "AddressOutOfRange", value.rest)
         ELSE Commit("Store", ip + 2, value.rest,
                     StoreWrite(memory, Cell(memory, ip + 1), value.value),
                     output, Len(value.rest))

\* Load pushing its operand instead of the cell the operand addresses.
LoadPushesAddress ==
  /\ Fetched("Load")
  /\ IF ~InBounds(memory, ip + 1)
       THEN Abort("Load", "AddressOutOfRange", stack)
     ELSE IF ~InBounds(memory, Cell(memory, ip + 1))
       THEN Abort("Load", "AddressOutOfRange", stack)
     ELSE Commit("Load", ip + 2, Append(stack, Cell(memory, ip + 1)), memory,
                 output, Len(stack))

StepLoad ==
  /\ Fetched("Load")
  /\ IF ~InBounds(memory, ip + 1)
       THEN Abort("Load", "AddressOutOfRange", stack)
     ELSE IF ~InBounds(memory, Cell(memory, ip + 1))
       THEN Abort("Load", "AddressOutOfRange", stack)
     ELSE Commit("Load", ip + 2,
                 Append(stack, Cell(memory, Cell(memory, ip + 1))), memory,
                 output, Len(stack))

Step ==
  \/ StepFetchFault \/ StepUnknown \/ StepHalt \/ StepPush \/ StepPop
  \/ StepAdd \/ StepSub \/ StepMul \/ StepDiv \/ StepJump
  \/ StepJumpIfEqual \/ StepJumpIfNotEqual \/ StepJumpIfLessThan
  \/ StepJumpIfGreaterThan \/ StepJumpIfLessThanOrEqual
  \/ StepJumpIfGreaterThanOrEqual
  \/ StepCall \/ StepReturn \/ StepPrint \/ StepStore \/ StepLoad

Next == DoAssemble \/ New \/ LoadProgram \/ TestSetMemory \/ Execute \/ Step

Spec == Init /\ [][Next]_vars

\* The instruction sequences of a further call of assemble.
MoreAlphabet == {<<"Halt">>, <<"Push", 2>>, <<"Load", 0>>}
MorePrograms == SeqsUpTo(MoreAlphabet, MaxInstrs)

\* assemble called again on the same Assembler: `instructions` becomes all
\* that was passed so far.  Further calls are made on main's program and
\* while the instructions so far are no more than MaxInstrs.
AssembleMore ==
  /\ pc = "assembled"
  /\ Len(instructions) <= MaxInstrs \/ instructions = MainProgram
  /\ \E more \in MorePrograms :
       /\ instructions' = instructions \o more
       /\ machine_code' = Assemble(machine_code, more)
  /\ UNCHANGED <<rev, overflow_checks, pc, steps, ip, stack, memory, output,
                 err, last, calls>>

\* The runs of the Assembler alone.
AssemblerNext == DoAssemble \/ AssembleMore

AssemblerSpec == Init /\ [][AssemblerNext]_vars

\* The programs of a second load: Halt; Print, Halt; Push 2, Halt.
SecondPrograms ==
  {<< <<"Halt">> >>, << <<"Print">>, <<"Halt">> >>,
   << <<"Push", 2>>, <<"Halt">> >>}

\* load_program called again on the same machine, before or after a run of
\* execute, with the output of a new Assembler for a second program.
Reload ==
  /\ pc \in {"loaded", "halted"}
  /\ \E second \in SecondPrograms :
       /\ instructions' = second
       /\ machine_code' = Assemble(<<>>, second)
  /\ IF LoadAccepts(memory, machine_code')
       THEN /\ memory' = CopyInto(memory, machine_code')
            /\ pc' = "loaded"
            /\ err' = err
       ELSE /\ memory' = memory
            /\ pc' = "panicked"
            /\ err' = "ProgramTooLarge"
  /\ UNCHANGED <<rev, overflow_checks, steps, ip, stack, output, last, calls>>

\* The runs in which load_program is called more than once.
ReloadNext == DoAssemble \/ New \/ LoadProgram \/ Reload \/ Execute \/ Step

ReloadSpec == Init /\ [][ReloadNext]_vars

\* ------------------------------------------------------------------- claims

Top(s) == s[Len(s)]

\* memory starts with the cells of `image`.
Holds(image) ==
  Len(memory) >= Len(image) /\ SubSeq(memory, 1, Len(image)) = image

\* No step leaves a run that a fatal condition aborted.
Aborted == pc = "panicked"

\* C1: in vm.rs, for all a and b whose sum fits the integer type, a fresh
\* interpreter whose memory holds Push a, Push b, Add, Print, Halt never
\* panics, emits nothing but the one value a+b, has done so after its four
\* steps, then fetches Halt, and halts with a+b on top of the stack.
C1_TestProgramEmitsSum ==
  \A a \in ArithVals("vm"), b \in ArithVals("vm") :
    (/\ rev = "vm"
     /\ Fits("vm", a + b)
     /\ pc \in {"loaded", "running", "halted", "panicked"}
     /\ Holds(TestImage(a, b)))
      => /\ pc # "panicked"
         /\ output \in {<<>>, <<a + b>>}
         /\ steps <= 4
         /\ steps = 4 => (ip = 6 /\ output = <<a + b>> /\ Top(stack) = a + b)
         /\ pc = "halted" => (steps = 4 /\ last.op = "Halt")

\* The test of the repository: new(1024, 1024), a = 1 and b = 2, halted
\* with 3 printed and on top of the 1024 zeros.
C1_Witness ==
  /\ rev = "vm"
  /\ pc = "halted"
  /\ memory = TestImage(1, 2)
  /\ output = <<3>>
  /\ Len(stack) = MainStackSize + 1
  /\ Top(stack) = 3

\* C2: the program of main(), assembled and loaded into new(1024, 1024): the
\* run never panics, emits nothing but the single value 15, has emitted it
\* after its twelve steps and then halts.
C2_MainEmits15 ==
  (/\ instructions = MainProgram
   /\ pc \in {"loaded", "running", "halted", "panicked"}
   /\ Len(memory) = MainMemorySize)
    => /\ pc # "panicked"
       /\ output \in {<<>>, <<15>>}
       /\ steps <= 12
       /\ steps = 12 => (output = <<15>> /\ Dispatch(Cell(memory, ip)) = "Halt")
       /\ pc = "halted" => (steps = 12 /\ output = <<15>>)

C2_Witness ==
  /\ rev = "main"
  /\ instructions = MainProgram
  /\ Len(memory) = MainMemorySize
  /\ Len(stack) = MainStackSize
  /\ pc = "halted"
  /\ output = <<15>>

\* The number of cells the opcode/arity table gives an instruction sequence.
RECURSIVE Widths(_)
Widths(instrs) ==
  IF instrs = <<>> THEN 0
  ELSE (IF Head(instrs)[1] \in WithOperand THEN 2 ELSE 1) + Widths(Tail(instrs))

\* An image decoded left to right with the opcode table and the arities;
\* an unknown opcode or a missing operand cell decodes to <<"Unknown">>.
RECURSIVE Disassemble(_)
Disassemble(code) ==
  IF code = <<>> THEN <<>>
  ELSE LET tag == FromI64(Head(code))
       IN  IF tag = "Unknown" THEN << <<"Unknown">> >>
           ELSE IF tag \in WithOperand
             THEN IF Len(code) < 2 THEN << <<"Unknown">> >>
                  ELSE << <<tag, code[2]>> >> \o Disassemble(Tail(Tail(code)))
           ELSE << <<tag>> >> \o Disassemble(Tail(code))

\* C3: after assemble on a new Assembler, machine_code has one cell per
\* instruction plus one per operand, and decoding it gives the instructions
\* back, tags and operands in order.
C3_AssembleRoundTrip ==
  pc # "start"
    => /\ Len(machine_code) = Widths(instructions)
       /\ Disassemble(machine_code) = instructions

C3_Witness ==
  /\ pc = "assembled"
  /\ instructions = << <<"Store", 2>>, <<"Pop">> >>
  /\ machine_code = <<17, 2, 2>>

\* C4: a Div step taken with at least two stack elements and a zero on top
\* ends the run with DivisionByZero: nothing is pushed (both operands are
\* gone), ip stays at the Div, nothing is emitted, and no step follows an
\* aborted run.
C4_DivByZeroAborts ==
  [][/\ (Fetched("Div") /\ Len(stack) >= 2 /\ Top(stack) = 0)
          => /\ pc' = "panicked"
             /\ err' = "DivisionByZero"
             /\ ip' = ip
             /\ stack' = SubSeq(stack, 1, Len(stack) - 2)
             /\ memory' = memory
             /\ output' = output
     /\ ~Aborted]_vars

\* Push 5, Push 0, Div has panicked at the Div.
C4_Witness ==
  /\ pc = "panicked"
  /\ err = "DivisionByZero"
  /\ last = [op |-> "Div", at |-> 4]
  /\ Holds(<<1, 5, 1, 0, 6>>)
  /\ ip = 4

\* C5 as claimed: a Pop step taken with no stack element ends the run with
\* StackUnderflow.
C5_PopOnEmptyAborts ==
  [][(Fetched("Pop") /\ stack = <<>>)
       => (pc' = "panicked" /\ err' = "StackUnderflow" /\ ip' = ip)]_vars

\* C6: a Return step taken with no stack element ends the run with
\* StackUnderflow, ip keeps its value, and no step follows an aborted run.
C6_ReturnOnEmptyAborts ==
  [][/\ (Fetched("Return") /\ stack = <<>>)
          => /\ pc' = "panicked"
             /\ err' = "StackUnderflow"
             /\ ip' = ip
             /\ stack' = stack
             /\ memory' = memory
     /\ ~Aborted]_vars

C6_Witness ==
  /\ pc = "panicked"
  /\ err = "StackUnderflow"
  /\ last.op = "Return"
  /\ stack = <<>>
  /\ Cell(memory, ip) = OpCodeOf("Return")

\* C7: load_program with an image longer than the memory panics with
\* ProgramTooLarge and leaves every memory cell, ip and the stack as they
\* were.
C7_TooLargeLeavesMemory ==
  [][(pc = "constructed" /\ Len(machine_code) > Len(memory))
       => /\ pc' = "panicked"
          /\ err' = "ProgramTooLarge"
          /\ memory' = memory
          /\ ip' = ip
          /\ stack' = stack]_vars

\* A three-cell image offered to a two-cell memory.
C7_Witness ==
  /\ pc = "panicked"
  /\ err = "ProgramTooLarge"
  /\ Len(machine_code) = Len(memory) + 1
  /\ memory = Zeros(SmallMem)
  /\ machine_code[1] # 0

\* What Call does: it pushes the address after its operand and jumps.
CallPushes ==
  (Fetched("Call") /\ InBounds(memory, ip + 1))
    => /\ stack' = Append(stack, ip + 2)
       /\ ip' = Cell(memory, ip + 1)
       /\ pc' = "running"

\* C8 as claimed: a Return taken when the stack is as deep as it was just
\* after the push of an earlier Call at p leaves ip = p + 2 and the stack as
\* it was before that Call.
C8_ReturnAtCallDepth ==
  [][/\ CallPushes
     /\ \A c \in calls :
          (Fetched("Return") /\ Len(stack) = Len(c.before) + 1)
            => (ip' = c.p + 2 /\ stack' = c.before)]_vars

\* C8 amended: the same, provided that no instruction since the Call popped
\* the cell the Call pushed (the stack never was shallower than just after
\* the push, not even within an instruction).
C8_ReturnResumesAfterCall ==
  [][/\ CallPushes
     /\ \A c \in calls :
          (Fetched("Return") /\ c.intact /\ Len(stack) = Len(c.before) + 1)
            => (ip' = c.p + 2 /\ stack' = c.before /\ pc' = "running")]_vars

\* Call 3, Halt, Push 2, Pop, Return has returned to the Halt at 2 with the
\* stack of before the Call.
C8_Witness ==
  /\ instructions =
       << <<"Call", 3>>, <<"Halt">>, <<"Push", 2>>, <<"Pop">>, <<"Return">> >>
  /\ last = [op |-> "Return", at |-> 6]
  /\ ip = 2
  /\ \E c \in calls : c.p = 0 /\ c.before = stack /\ stack # <<>>

\* C10 as claimed: a Print step taken with a non-empty stack emits the top
\* of the stack, leaves stack and memory as they were and advances ip by 1.
C10_PrintPeeks ==
  [][(Fetched("Print") /\ stack # <<>>)
       => /\ output' = Append(output, Top(stack))
          /\ stack' = stack
          /\ memory' = memory
          /\ ip' = ip + 1]_vars

\* C11 as claimed: after new and load_program, whatever the capacities, ip is
\* 0, the operand stack has no elements and memory is the image followed by
\* zeros up to the memory capacity.
C11_LoadedStateEmptyStack ==
  [][(pc = "constructed" /\ pc' = "loaded" /\ instructions # <<>>)
       => /\ ip' = 0
          /\ stack' = <<>>
          /\ memory' = machine_code
                         \o Zeros(Len(memory) - Len(machine_code))]_vars

\* C12: every fetch inside memory decodes the cell through the opcode table:
\* the table is a bijection between the 19 tags and 0..18, a cell holding
\* one of these numbers runs the arm of its tag, and any other number,
\* negative ones included, aborts with InvalidOpcode and leaves ip, stack
\* and memory as they were.
C12_DecodeOnEveryFetch ==
  [][(pc = "running" /\ steps < MaxSteps /\ InBounds(memory, ip))
       => /\ \A t \in Tags :
               OpCodeOf(t) \in 0 .. 18 /\ Dispatch(OpCodeOf(t)) = t
          /\ IF Cell(memory, ip) \in 0 .. 18
               THEN /\ last'.op \in Tags
                    /\ OpCodeOf(last'.op) = Cell(memory, ip)
                    /\ last'.at = ip
               ELSE /\ pc' = "panicked"
                    /\ err' = "InvalidOpcode"
                    /\ ip' = ip
                    /\ stack' = stack
                    /\ memory' = memory]_vars

\* Push MIN, Jump 1 in vm.rs: the negative operand of the Push was fetched as
\* an opcode and the run aborted.
C12_Witness ==
  /\ pc = "panicked"
  /\ err = "InvalidOpcode"
  /\ last = [op |-> "Unknown", at |-> 1]
  /\ Cell(memory, ip) = MinInt("vm")
  /\ Cardinality(Tags) = 19

\* A step of the running loop is about to be taken.
Stepping == pc = "running" /\ steps < MaxSteps

\* The step aborts on an address outside memory, and memory is as it was.
AddressFault ==
  pc' = "panicked" /\ err' = "AddressOutOfRange" /\ memory' = memory

\* The opcodes whose arm reads the operand cell before it touches the stack.
OperandFirst == {"Push", "Jump", "Call", "Store", "Load"}

\* C13: every access of a step (the opcode at ip, the operand at ip+1, the
\* target of Store, the source of Load) is inside memory or the step aborts
\* with AddressOutOfRange at that access, with memory as it was; a step that
\* goes on has made all its accesses inside memory and left memory at its
\* length.
C13_AccessesInBounds ==
  [][Stepping =>
       LET op == Dispatch(Cell(memory, ip))
           operand == Cell(memory, ip + 1)
       IN  /\ ~InBounds(memory, ip) => AddressFault
           /\ (InBounds(memory, ip) /\ ~InBounds(memory, ip + 1))
                => /\ op \in OperandFirst => AddressFault
                   /\ (op \in JumpIfTags /\ Len(stack) >= 2) => AddressFault
           /\ (InBounds(memory, ip) /\ InBounds(memory, ip + 1)
                 /\ ~InBounds(memory, operand))
                => /\ (op = "Store" /\ stack # <<>>) => AddressFault
                   /\ op = "Load" => AddressFault
           /\ pc' = "running"
                => /\ InBounds(memory, ip)
                   /\ op \in WithOperand => InBounds(memory, ip + 1)
                   /\ op \in {"Store", "Load"} => InBounds(memory, operand)
           /\ Len(memory') = Len(memory)]_vars

\* Push 17, Store 7, Jump 7: the Store written to the last cell was fetched
\* and its operand cell is past the end of memory.
C13_Witness ==
  /\ instructions \in LastCellPrograms
  /\ pc = "panicked"
  /\ err = "AddressOutOfRange"
  /\ last = [op |-> "Store", at |-> Len(memory) - 1]
  /\ ip = Len(memory) - 1

\* The relation each conditional jump is named after, on a = the top of the
\* stack and b = the element below it.
Rel(tag, a, b) ==
  CASE tag = "JumpIfEqual" -> a - b = 0
    [] tag = "JumpIfNotEqual" -> a - b # 0
    [] tag = "JumpIfLessThan" -> a - b < 0
    [] tag = "JumpIfGreaterThan" -> a - b > 0
    [] tag = "JumpIfLessThanOrEqual" -> ~(a - b > 0)
    [] tag = "JumpIfGreaterThanOrEqual" -> ~(a - b < 0)

\* C14: a conditional jump at p with operand addr and at least two stack
\* elements, a on top and b below it, removes both whatever the outcome,
\* goes to addr when a <rel> b and to p+2 when not, and leaves memory alone.
C14_ConditionalJumps ==
  [][\A t \in JumpIfTags :
       (Fetched(t) /\ Len(stack) >= 2 /\ InBounds(memory, ip + 1))
         => LET a == stack[Len(stack)]
                b == stack[Len(stack) - 1]
                addr == Cell(memory, ip + 1)
            IN  /\ pc' = "running"
                /\ stack' = SubSeq(stack, 1, Len(stack) - 2)
                /\ ip' = IF Rel(t, a, b) THEN addr ELSE ip + 2
                /\ memory' = memory
                /\ output' = output]_vars

\* Push 2, Push 1, JumpIfLessThan 7, Halt on an empty stack: 1 < 2, so the
\* jump from 4 was taken to 7 and both operands are gone.
C14_Witness ==
  /\ instructions = << <<"Push", 2>>, <<"Push", 1>>,
                       <<"JumpIfLessThan", 7>>, <<"Halt">> >>
  /\ pc = "running"
  /\ last = [op |-> "JumpIfLessThan", at |-> 4]
  /\ ip = 7
  /\ stack = <<>>

\* The stack below its two top elements.
BelowTwo(s) == SubSeq(s, 1, Len(s) - 2)

\* The quotient of b by a # 0 rounded toward zero: the q with b = q*a + r
\* whose remainder r is smaller than a in magnitude and is zero or has the
\* sign of b.
Quotient(b, a) ==
  CHOOSE q \in -Abs(b) .. Abs(b) :
    LET r == b - q * a
    IN  Abs(r) < Abs(a) /\ (r = 0 \/ (r < 0) = (b < 0))

\* The exact result of an arithmetic opcode on a = top and b = second.
Exact(tag, a, b) ==
  CASE tag = "Add" -> a + b
    [] tag = "Sub" -> b - a
    [] tag = "Mul" -> a * b
    [] tag = "Div" -> Quotient(b, a)

\* What C15 says of a Sub or Div step on a = top and b = second: the two are
\* replaced by the result, everything below and memory stay, ip advances by 1.
ReplacesTopTwo(tag) ==
  /\ pc' = "running"
  /\ stack' = Append(BelowTwo(stack),
                     Exact(tag, stack[Len(stack)], stack[Len(stack) - 1]))
  /\ memory' = memory
  /\ ip' = ip + 1

\* C15 as claimed: with a = top and b = second, Sub replaces the two by
\* b - a and Div (a # 0) replaces them by b / a rounded toward zero, for all
\* operands.
C15_SubDivAlways ==
  [][\A t \in {"Sub", "Div"} :
       (/\ Fetched(t)
        /\ Len(stack) >= 2
        /\ t = "Div" => stack[Len(stack)] # 0)
         => ReplacesTopTwo(t)]_vars

\* C15 amended: the same, for the operands whose result fits the integer
\* type of the revision.
C15_SubDivOperandOrder ==
  [][\A t \in {"Sub", "Div"} :
       (/\ Fetched(t)
        /\ Len(stack) >= 2
        /\ t = "Div" => stack[Len(stack)] # 0
        /\ Fits(rev, Exact(t, stack[Len(stack)], stack[Len(stack) - 1])))
         => ReplacesTopTwo(t)]_vars

\* Push 5, Push -3, Div, Print, Halt in vm.rs on an empty stack: the Div at 4
\* left 5 / -3 = -1 and went on to 5.
C15_Witness ==
  /\ rev = "vm"
  /\ instructions = << <<"Push", 5>>, <<"Push", -3>>, <<"Div">>, <<"Print">>,
                       <<"Halt">> >>
  /\ last = [op |-> "Div", at |-> 4]
  /\ ip = 5
  /\ stack = <<-1>>

\* C16 as claimed: Add, Sub, Mul and Div push the exact result when it fits
\* the integer type, and when it does not the run aborts and nothing is
\* pushed.
C16_ExactOrAbort ==
  [][\A t \in {"Add", "Sub", "Mul", "Div"} :
       (/\ Fetched(t)
        /\ Len(stack) >= 2
        /\ t = "Div" => stack[Len(stack)] # 0)
         => IF Fits(rev, Exact(t, stack[Len(stack)], stack[Len(stack) - 1]))
              THEN ReplacesTopTwo(t)
              ELSE pc' = "panicked" /\ stack' = BelowTwo(stack)]_vars

\* The opcodes that pop two operands.
TwoOperand == {"Add", "Sub", "Mul", "Div"} \cup JumpIfTags

\* The step aborts with StackUnderflow: nothing is pushed (the stack is a
\* prefix of what it was), memory, ip and output are as they were.
UnderflowAbort ==
  /\ pc' = "panicked"
  /\ err' = "StackUnderflow"
  /\ Len(stack') <= Len(stack)
  /\ stack' = SubSeq(stack, 1, Len(stack'))
  /\ memory' = memory
  /\ ip' = ip
  /\ output' = output

\* C17 as claimed: Add, Sub, Mul, Div and the conditional jumps with fewer
\* than two elements, and Store and Print with none, abort with
\* StackUnderflow, and nothing executes after the abort.
C17_UnderflowAlways ==
  [][/\ pc = "panicked" => vars' = vars
     /\ \A t \in TwoOperand \cup {"Store", "Print"} :
          (Fetched(t) /\ Len(stack) < (IF t \in TwoOperand THEN 2 ELSE 1))
            => UnderflowAbort]_vars

\* C17 amended: the same, for Store only when its operand cell is inside
\* memory (the arm reads its operand before it pops).
C17_UnderflowAborts ==
  [][/\ pc = "panicked" => vars' = vars
     /\ \A t \in TwoOperand \cup {"Store", "Print"} :
          (/\ Fetched(t)
           /\ Len(stack) < (IF t \in TwoOperand THEN 2 ELSE 1)
           /\ t = "Store" => InBounds(memory, ip + 1))
            => UnderflowAbort]_vars

\* Push 2, Add on an empty stack: the Add at 2 popped the 2, found nothing
\* below it and aborted where it stood.
C17_Witness ==
  /\ instructions = << <<"Push", 2>>, <<"Add">> >>
  /\ pc = "panicked"
  /\ err = "StackUnderflow"
  /\ last = [op |-> "Add", at |-> 2]
  /\ ip = 2
  /\ stack = <<>>
  /\ Holds(machine_code)

\* ip, stack, memory and output are left as they are.
MachineUnchanged == UNCHANGED <<ip, stack, memory, output>>

\* C18: the loop leaves the running state only by fetching the Halt opcode
\* or by a fatal condition, and a fetched Halt always ends it; the Halt step
\* leaves ip on the Halt cell and changes neither stack, memory nor output;
\* from the halted state nothing happens but another call of execute, which
\* fetches the same Halt and returns with ip, stack, memory and output as
\* they were.
C18_HaltIsStable ==
  [][/\ (pc = "running" /\ pc' # "running")
          => \/ pc' = "panicked"
             \/ /\ pc' = "halted"
                /\ InBounds(memory, ip)
                /\ Cell(memory, ip) = OpCodeOf("Halt")
                /\ MachineUnchanged
     /\ Fetched("Halt") => pc' = "halted"
     /\ pc = "halted"
          => /\ pc' = "running"
             /\ InBounds(memory, ip)
             /\ Cell(memory, ip) = OpCodeOf("Halt")
             /\ last.op = "Halt"
             /\ last' = last
             /\ MachineUnchanged
     /\ (pc = "running" /\ last.op = "Halt")
          => (pc' = "halted" /\ MachineUnchanged)]_vars

\* main's program has halted, execute was called again and is about to
\* fetch the Halt at 19 once more, the 15 still the only output.
C18_Witness ==
  /\ instructions = MainProgram
  /\ pc = "running"
  /\ last = [op |-> "Halt", at |-> ip]
  /\ output = <<15>>
  /\ Cell(memory, ip) = OpCodeOf("Halt")

\* The image `Jump 0`.
JumpZero == << <<"Jump", 0>> >>

\* Loaded by load_program and not aborted.
Alive == pc \in {"loaded", "running", "halted"}

\* `Jump 0` never halts and never aborts: at every moment of the run ip is 0
\* and the image is in place, so the next step is the same Jump again.
LoopsForever ==
  (instructions = JumpZero /\ pc \notin {"start", "assembled", "constructed"})
    => /\ pc \in {"loaded", "running"}
       /\ ip = 0
       /\ Holds(<<OpCodeOf("Jump"), 0>>)
       /\ output = <<>>

\* No Jump, JumpIf*, Call or Return among the instructions, and the last
\* instruction is Halt.
BranchFree(instrs) ==
  \A i \in 1 .. Len(instrs) :
    instrs[i][1] \notin {"Jump", "Call", "Return"} \cup JumpIfTags
EndsInHalt(instrs) == instrs # <<>> /\ instrs[Len(instrs)] = <<"Halt">>

\* Halt is nowhere but at the end, and no Store addresses a cell of the image.
StraightLine(instrs) ==
  /\ \A i \in 1 .. Len(instrs) - 1 : instrs[i] # <<"Halt">>
  /\ \A i \in 1 .. Len(instrs) :
       instrs[i][1] = "Store"
         => ~(0 <= instrs[i][2] /\ instrs[i][2] < Widths(instrs))

\* A run that has not aborted has taken one step per instruction so far:
\* after k steps ip is at instruction k+1, the last step is the fetch of the
\* final Halt, and the run is halted only by that fetch (steps counts the
\* steps before the Halt).
OneStepPerInstruction ==
  /\ steps <= Len(instructions) - 1
  /\ ip = Widths(SubSeq(instructions, 1, steps))
  /\ Holds(machine_code)
  /\ steps = Len(instructions) - 1 => Cell(memory, ip) = OpCodeOf("Halt")
  /\ (pc = "halted" \/ last.op = "Halt") => steps = Len(instructions) - 1

\* C19 as claimed: `Jump 0` never halts, and every branch-free image that
\* ends in Halt and meets no fatal condition halts after exactly one step per
\* instruction.
C19_BranchFreeHalts ==
  /\ LoopsForever
  /\ (Alive /\ BranchFree(instructions) /\ EndsInHalt(instructions))
       => OneStepPerInstruction

\* C19 amended: the same, for the branch-free images whose only Halt is the
\* last instruction and whose Stores do not write into the image.
C19_StraightLineHalts ==
  /\ LoopsForever
  /\ (/\ Alive
      /\ BranchFree(instructions)
      /\ EndsInHalt(instructions)
      /\ StraightLine(instructions))
       => OneStepPerInstruction

\* `Jump 0` has taken MaxSteps steps and is at 0 again, and main's 13
\* instructions have halted after 12 steps and the Halt.
C19_Witness ==
  \/ instructions = JumpZero /\ pc = "running" /\ steps = MaxSteps /\ ip = 0
  \/ /\ instructions = MainProgram
     /\ pc = "halted"
     /\ steps = Len(MainProgram) - 1

\* C20: while execute runs, memory keeps its number of cells; a step that
\* is not a completed Store leaves every cell as it was; a completed Store
\* with operand addr puts the popped top of the stack in memory[addr], which
\* may be a cell of the image, and leaves every other cell as it was.
C20_OnlyStoreWrites ==
  [][(pc \in {"running", "halted"})
       => /\ Len(memory') = Len(memory)
          /\ ~(Fetched("Store") /\ pc' = "running") => memory' = memory
          /\ (Fetched("Store") /\ pc' = "running")
               => /\ InBounds(memory, Cell(memory, ip + 1))
                  /\ Cell(memory', Cell(memory, ip + 1)) = Top(stack)
                  /\ \A a \in 0 .. Len(memory) - 1 :
                       (a # Cell(memory, ip + 1))
                         => (Cell(memory', a) = Cell(memory, a))]_vars

\* Push 2, Store 0: the Store at 2 has overwritten the opcode of the Push in
\* cell 0 with the 2, and nothing else.
C20_Witness ==
  /\ instructions = << <<"Push", 2>>, <<"Store", 0>> >>
  /\ last = [op |-> "Store", at |-> 2]
  /\ pc = "running"
  /\ machine_code = <<OpCodeOf("Push"), 2, OpCodeOf("Store"), 0>>
  /\ SubSeq(memory, 1, 4) = <<2, 2, OpCodeOf("Store"), 0>>

\* C21: a load_program that succeeds, the first or a later one, puts the
\* image in the cells from 0 and leaves the cells after it, ip, the stack and
\* the output as they were.
C21_LoadOverwritesPrefix ==
  [][(pc \in {"constructed", "loaded", "halted"} /\ pc' = "loaded")
       => /\ Len(machine_code') <= Len(memory)
          /\ memory' = machine_code'
                         \o SubSeq(memory, Len(machine_code') + 1, Len(memory))
          /\ ip' = ip
          /\ stack' = stack
          /\ output' = output]_vars

\* Halt was loaded after a run of a longer program: cell 0 holds it, the
\* cells after it still hold the earlier program, and ip and the stack are
\* where the run left them.
C21_Witness ==
  /\ pc = "loaded"
  /\ instructions = << <<"Halt">> >>
  /\ last = [op |-> "Halt", at |-> 4]
  /\ ip = 4
  /\ memory = <<OpCodeOf("Halt"), 2, OpCodeOf("Push"), 2, 0, 0, 0, 0>>
  /\ stack = <<2, 2>>

\* C22: a further call of assemble on the same Assembler leaves machine_code
\* equal to what one call on a new Assembler gives for all the instructions
\* passed so far, in order, and what was there before the call is an
\* unchanged prefix of it.
C22_AssembleAccumulates ==
  [][(pc = "assembled" /\ pc' = "assembled")
       => /\ machine_code' = Assemble(<<>>, instructions')
          /\ Disassemble(machine_code') = instructions'
          /\ Len(machine_code') >= Len(machine_code)
          /\ SubSeq(machine_code', 1, Len(machine_code)) = machine_code]_vars

\* Push 2, Add was assembled and then Load 0, Halt: six cells, the first
\* three those of the first call.
C22_Witness ==
  /\ pc = "assembled"
  /\ instructions = << <<"Push", 2>>, <<"Add">>, <<"Load", 0>>, <<"Halt">> >>
  /\ machine_code = <<OpCodeOf("Push"), 2, OpCodeOf("Add"), OpCodeOf("Load"),
                      0, OpCodeOf("Halt")>>

\* C23: in Push v, Store a, Load a with a inside memory and not one of the
\* two cells of the Load, the Store at p finds v on top, removes it and puts
\* it in memory[a], and the Load that follows pushes v again: after the two
\* steps the stack is what it was before the Store, memory[a] is v and ip is
\* p + 4.
C23_StoreLoadRoundTrip ==
  [][\A pre \in StoreLoadPrefixes, v \in StoreLoadVals(rev),
        a \in StoreLoadAddrs :
       LET p == 2 * Len(pre) + 2
       IN  (/\ instructions = StoreLoad(pre, v, a)
            /\ pc = "running"
            /\ InBounds(memory, a)
            /\ a \notin {p + 2, p + 3})
             => /\ (ip = p /\ steps = Len(pre) + 1)
                     => /\ stack # <<>>
                        /\ Top(stack) = v
                        /\ pc' = "running"
                        /\ stack' = SubSeq(stack, 1, Len(stack) - 1)
                        /\ Cell(memory', a) = v
                        /\ ip' = p + 2
                /\ (ip = p + 2 /\ steps = Len(pre) + 2)
                     => /\ last = [op |-> "Store", at |-> p]
                        /\ Cell(memory, a) = v
                        /\ pc' = "running"
                        /\ last' = [op |-> "Load", at |-> p + 2]
                        /\ stack' = Append(stack, v)
                        /\ memory' = memory
                        /\ ip' = p + 4]_vars

\* Push 5, Push 7, Store 0, Load 0 on an empty stack: the 7 went to cell 0
\* and came back, and ip is 4 past the Store at 4.
C23_Witness ==
  /\ instructions = StoreLoad(<< <<"Push", 5>> >>, 7, 0)
  /\ pc = "running"
  /\ last = [op |-> "Load", at |-> 6]
  /\ ip = 8
  /\ stack = <<5, 7>>
  /\ Cell(memory, 0) = 7

====
